---- MODULE Spec2Model ----
(***************************************************************************)
(* A model of zapret_domains_selector (src/src/main.rs): the terminal      *)
(* session of main, the catalog built by run_app from the "lists"          *)
(* directory and lists/selected.txt, and the key-event loop.               *)
(*                                                                         *)
(* A Rust String is modelled as a sequence of one-character strings, so    *)
(* that starts_with, ends_with, str::lines, writeln! and the ordering of   *)
(* String are computed the way the standard library computes them.         *)
(***************************************************************************)
EXTENDS Integers, Sequences, FiniteSets, TLC

\* ------------------------------------------------------------------ bounds

\* The largest number of directory entries (besides selected.txt).
MaxFiles == 2

\* ----------------------------------------------------------------- strings

LF == "\n"
CR == "\r"

\* The byte value of each character that occurs in the modelled names.
Code(c) ==
    CASE c = LF  -> 10
      [] c = CR  -> 13
      [] c = " " -> 32
      [] c = "-" -> 45
      [] c = "." -> 46
      [] c = "A" -> 65
      [] c = "C" -> 67
      [] c = "E" -> 69
      [] c = "I" -> 73
      [] c = "L" -> 76
      [] c = "N" -> 78
      [] c = "S" -> 83
      [] c = "T" -> 84
      [] c = "V" -> 86
      [] c = "a" -> 97
      [] c = "b" -> 98
      [] c = "c" -> 99
      [] c = "d" -> 100
      [] c = "e" -> 101
      [] c = "i" -> 105
      [] c = "l" -> 108
      [] c = "m" -> 109
      [] c = "o" -> 111
      [] c = "s" -> 115
      [] c = "t" -> 116
      [] c = "u" -> 117
      [] c = "x" -> 120

\* String::cmp, a.name.cmp(&b.name) < 0: byte-wise lexicographic order.
StrLess(a, b) ==
    \E i \in 1..(Len(a) + 1) :
        /\ i <= Len(b)
        /\ \A j \in 1..(i - 1) : a[j] = b[j]
        /\ \/ i = Len(a) + 1
           \/ Code(a[i]) < Code(b[i])

\* str::starts_with
StartsWith(s, p) ==
    /\ Len(p) <= Len(s)
    /\ SubSeq(s, 1, Len(p)) = p

\* str::ends_with
EndsWith(s, p) ==
    /\ Len(p) <= Len(s)
    /\ SubSeq(s, Len(s) - Len(p) + 1, Len(s)) = p

\* The literals of run_app.
PrefixList   == <<"l","i","s","t","-">>
SuffixTxt    == <<".","t","x","t">>
ListUltimate == <<"l","i","s","t","-","u","l","t","i","m","a","t","e",".","t","x","t">>
SelectedTxt  == <<"s","e","l","e","c","t","e","d",".","t","x","t">>
SaveList     == <<"S","A","V","E"," ","L","I","S","T">>
Cancel       == <<"C","A","N","C","E","L">>

\* File names a "lists" directory is populated from.
ListA   == <<"l","i","s","t","-","a",".","t","x","t">>
ListB   == <<"l","i","s","t","-","b",".","t","x","t">>
ListDat == <<"l","i","s","t","-","c",".","d","a","t">>
\* A single name that holds a line feed (legal in a POSIX file name).
ListNL  == ListA \o <<LF>> \o ListB
NameUniverse == {ListA, ListB, ListDat, ListNL, ListUltimate}


\* A split at every line feed that strips no carriage return.
RECURSIVE LinesSplitLF(_)
LinesSplitLF(s) ==
    IF s = <<>> THEN <<>>
    ELSE IF \E i \in 1..Len(s) : s[i] = LF
    THEN LET i == CHOOSE k \in 1..Len(s) :
                      s[k] = LF /\ \A j \in 1..(k - 1) : s[j] # LF
         IN  <<SubSeq(s, 1, i - 1)>> \o LinesSplitLF(SubSeq(s, i + 1, Len(s)))
    ELSE <<s>>

\* str::lines: split after every line feed, then strip one trailing "\n" and,
\* when that was stripped, one trailing "\r"; a last line without a line feed
\* is returned as it is, and an empty string has no lines.
RECURSIVE Lines(_)
Lines(s) ==
    IF s = <<>> THEN <<>>
    ELSE IF \E i \in 1..Len(s) : s[i] = LF
    THEN LET i    == CHOOSE k \in 1..Len(s) :
                         s[k] = LF /\ \A j \in 1..(k - 1) : s[j] # LF
             body == SubSeq(s, 1, i - 1)
             line == IF body # <<>> /\ body[Len(body)] = CR
                     THEN SubSeq(body, 1, Len(body) - 1)
                     ELSE body
         IN  <<line>> \o Lines(SubSeq(s, i + 1, Len(s)))
    ELSE <<s>>

\* Vec::contains
Contains(seq, x) == \E i \in 1..Len(seq) : seq[i] = x

\* writeln!(file, "{}", entry.name): the name's bytes, then a line feed.
Writeln(content, name) == content \o name \o <<LF>>

\* Contents lists/selected.txt may hold when the program starts.
Stale == <<"o","l","d">>
FileUniverse ==
    { <<>>,
      ListB \o <<LF>>,
      ListA \o <<CR, LF>> \o Stale \o <<LF>> \o ListB,
      SaveList \o <<LF>> \o ListA \o <<LF>> }

NoFile == [exists |-> FALSE, content |-> <<>>]
FileOf(c) == [exists |-> TRUE, content |-> c]

\* ----------------------------------------------------------------- catalog

\* struct FileEntry { name: String, selected: bool }
FileEntry(n, sel) == [name |-> n, selected |-> sel]

\* The test of the filter_map closure on a directory entry's name.
IsCandidate(name) ==
    /\ StartsWith(name, PrefixList)
    /\ EndsWith(name, SuffixTxt)
    /\ name # ListUltimate

\* The filter_map closure over what read_dir yields, in the order it yields
\* it. An item is [ok, name]: entry.ok()? drops an item that is an Err, and
\* the name test drops the names that are no candidates.
RECURSIVE FilterMap(_, _)
FilterMap(items, selectedFiles) ==
    IF items = <<>> THEN <<>>
    ELSE LET it   == Head(items)
             rest == FilterMap(Tail(items), selectedFiles)
         IN  IF it.ok /\ IsCandidate(it.name)
             THEN <<FileEntry(it.name, Contains(selectedFiles, it.name))>> \o rest
             ELSE rest

\* entries.sort_by(|a, b| a.name.cmp(&b.name)): a stable sort by name.
RECURSIVE InsertByName(_, _)
InsertByName(e, sorted) ==
    IF sorted = <<>> THEN <<e>>
    ELSE IF StrLess(e.name, Head(sorted).name)
    THEN <<e>> \o sorted
    ELSE <<Head(sorted)>> \o InsertByName(e, Tail(sorted))

RECURSIVE SortByName(_)
SortByName(es) ==
    IF es = <<>> THEN <<>>
    ELSE InsertByName(es[Len(es)], SortByName(SubSeq(es, 1, Len(es) - 1)))

\* The two entries.push calls after the sort.
PushSpecial(es) ==
    es \o <<FileEntry(SaveList, FALSE), FileEntry(Cancel, FALSE)>>

\* The catalog run_app builds from one directory listing.
BuildEntries(items, selectedFiles) ==
    PushSpecial(SortByName(FilterMap(items, selectedFiles)))

\* The save loop: one writeln! per selected entry, in catalog order, into the
\* file File::create has just truncated. n is the number of entries visited.
\* The save loop without its `if entry.selected`.
RECURSIVE WriteEvery(_, _)
WriteEvery(es, n) ==
    IF n = 0 THEN <<>> ELSE Writeln(WriteEvery(es, n - 1), es[n].name)

RECURSIVE WriteSelected(_, _)
WriteSelected(es, n) ==
    IF n = 0 THEN <<>>
    ELSE IF es[n].selected
    THEN Writeln(WriteSelected(es, n - 1), es[n].name)
    ELSE WriteSelected(es, n - 1)

\* ------------------------------------------------------------------ render

\* The display labels draw_screen gives the two special entries (Cyrillic in
\* the source, transliterated here), each taken as one token.
LabelSave   == <<"SOHRANIT SPISOK">>
LabelCancel == <<"OTMENA">>

\* A line whose selection marker is left blank.
ScreenLineNoMark(entry, index, currentIndex) ==
    [ cursor   |-> IF index = currentIndex THEN ">" ELSE " ",
      mark     |-> " ",
      name     |-> IF entry.name = SaveList THEN LabelSave
                   ELSE IF entry.name = Cancel THEN LabelCancel
                   ELSE entry.name,
      reversed |-> index = currentIndex ]

\* One line of draw_screen: the cursor marker, the selection marker, the
\* display name, and whether the line is written reversed.
ScreenLine(entry, index, currentIndex) ==
    [ cursor   |-> IF index = currentIndex THEN ">" ELSE " ",
      mark     |-> IF entry.selected THEN "*" ELSE " ",
      name     |-> IF entry.name = SaveList THEN LabelSave
                   ELSE IF entry.name = Cancel THEN LabelCancel
                   ELSE entry.name,
      reversed |-> index = currentIndex ]

\* draw_screen taking the clear_screen branch on every call.
DrawScreenAlwaysClear(es, currentIndex, clearScreen) ==
    [ kind  |-> "full",
      lines |-> [i \in 1..Len(es) |-> ScreenLine(es[i], i - 1, currentIndex)] ]

\* The frame a draw_screen call that succeeds leaves on the terminal.
DrawScreen(es, currentIndex, clearScreen) ==
    [ kind  |-> IF clearScreen THEN "full" ELSE "partial",
      lines |-> [i \in 1..Len(es) |-> ScreenLine(es[i], i - 1, currentIndex)] ]

NoFrame     == [kind |-> "none", lines |-> <<>>]
\* A draw_screen call that fails has written some part of a frame.
FailedFrame == [kind |-> "failed", lines |-> <<>>]
\* What the save arm's execute! and println! leave: the lines below the
\* cursor cleared, and the message.
MessageFrame == [kind |-> "message", lines |-> <<>>]

\* ------------------------------------------------------------------- state

VARIABLES
    pc,              \* the statement the process is at
    raw,             \* the terminal is in raw mode
    alt,             \* the terminal shows the alternate screen
    hidden,          \* the terminal's cursor is hidden
    termCalls,       \* the terminal-control calls this process has made
    dirExists,       \* the directory "lists" exists
    dir,             \* the names in "lists", selected.txt apart
    file,            \* lists/selected.txt
    selected_files,  \* run_app's selected_files
    entries,         \* run_app's entries
    current_index,   \* run_app's current_index
    ev,              \* what the last poll of the loop brought
    redraw,          \* the last turn of the loop has called draw_screen
    screen,          \* the frame run_app's last draw_screen call put out
    lastToggle,      \* the last press of Space or Enter on a real entry,
                     \* when no Up or Down press has followed it: the
                     \* cursor's index, how many such presses in a row
                     \* (1, or 2 for more), and the flag before the press
    result,          \* what run_app returned
    leftBy,          \* how run_app was left: "error", "ctrl_c", or by Enter
                     \* or Space with the cursor on "save" or on "cancel"
    status,          \* how the process ended
    saved,           \* the save loop of this process ran to its end
    savedNames,      \* the names that were selected when it did
    ioFailed,        \* an I/O operation of this process has failed
    log,             \* what this process has done to lists/selected.txt
                     \* and the steps of the "SAVE LIST" arm it has
                     \* completed, in the order it did them
    file0,           \* lists/selected.txt when this process started
    prevSaved        \* what the process before this one saved, when it
                     \* saved and ended with success

vars == << pc, raw, alt, hidden, termCalls, dirExists, dir, file,
           selected_files, entries, current_index, ev, redraw, screen,
           lastToggle, result, leftBy, status, saved, savedNames, ioFailed, log,
           file0, prevSaved >>

termVars  == << raw, alt, hidden, termCalls >>
fsVars    == << dirExists, dir, file >>
\* run_app's locals and what its loop has last seen and drawn: they live
\* from the call of run_app until main's statement after it.
localVars == << selected_files, entries, current_index, ev, redraw, screen,
               lastToggle >>
saveVars  == << saved, savedNames >>
histVars  == << file0, prevSaved >>

\* Key events: KeyEvent { code, modifiers, kind, .. }.
KeyCodes  == {"Up", "Down", "Space", "Enter", "c"}
Modifiers == {"NONE", "CONTROL"}
KeyKinds  == {"Press", "Repeat", "Release"}

NoEvent == [src |-> "none", code |-> "-", modifiers |-> "-", kind |-> "-"]
KeyEv(code, modifiers, kind) ==
    [src |-> "key", code |-> code, modifiers |-> modifiers, kind |-> kind]
OtherEv(src) == [src |-> src, code |-> "-", modifiers |-> "-", kind |-> "-"]

\* The key events the terminal delivers: every key alone, and Ctrl+C.
KeyEvents ==
    {KeyEv(c, "NONE", k) : c \in KeyCodes, k \in KeyKinds}
    \cup {KeyEv("c", "CONTROL", k) : k \in KeyKinds}

NoSave == [saved |-> FALSE, names |-> {}]
NoToggle == [index |-> -1, presses |-> 0, was |-> FALSE]

\* The names of the entries that are selected.
SelectedNames(es) == {es[i].name : i \in {j \in 1..Len(es) : es[j].selected}}

\* What read_dir lists: every name of the directory, selected.txt included
\* when it exists.
DirNames == dir \cup (IF file.exists THEN {SelectedTxt} ELSE {})

\* The state of a process that has not run yet.
Fresh ==
    /\ pc = "enable_raw"
    /\ raw = FALSE /\ alt = FALSE /\ hidden = FALSE
    /\ termCalls = {}
    /\ selected_files = <<>>
    /\ entries = <<>>
    /\ current_index = 0
    /\ ev = NoEvent
    /\ redraw = FALSE
    /\ screen = NoFrame
    /\ lastToggle = NoToggle
    /\ result = "none"
    /\ leftBy = "none"
    /\ status = "running"
    /\ saved = FALSE
    /\ savedNames = {}
    /\ ioFailed = FALSE
    /\ log = <<>>

Init ==
    /\ Fresh
    /\ dirExists \in BOOLEAN
    /\ dir \in {d \in SUBSET NameUniverse : Cardinality(d) <= MaxFiles}
    /\ file \in {NoFile} \cup {FileOf(c) : c \in FileUniverse}
    /\ dirExists = FALSE => (dir = {} /\ file = NoFile)
    /\ file0 = file
    /\ prevSaved = NoSave

\* -------------------------------------------------------------------- main

\* run_app's frame is gone: its locals are dropped.
DropLocals ==
    /\ selected_files' = <<>>
    /\ entries' = <<>>
    /\ current_index' = 0
    /\ ev' = NoEvent
    /\ redraw' = FALSE
    /\ screen' = NoFrame
    /\ lastToggle' = NoToggle

\* terminal::enable_raw_mode()?
EnableRaw(ok) ==
    /\ pc = "enable_raw"
    /\ termCalls' = termCalls \cup {"enable_raw_mode"}
    /\ IF ok
       THEN /\ raw' = TRUE
            /\ pc' = "enter_screen"
            /\ UNCHANGED << status, ioFailed >>
       ELSE /\ raw' = raw
            /\ ioFailed' = TRUE
            /\ status' = "err"
            /\ pc' = "exit"
    /\ UNCHANGED << alt, hidden, result, leftBy >>
    /\ UNCHANGED << fsVars, localVars, saveVars, histVars >>
    /\ UNCHANGED log

\* execute!(stdout, EnterAlternateScreen, Hide)?  The macro queues the
\* commands in turn and stops at the first that fails, then flushes: of the
\* two commands, att are attempted and the first eff of those reach the
\* terminal; a call that succeeds has attempted and effected both.
EnterScreen(ok, att, eff) ==
    /\ pc = "enter_screen"
    /\ att \in 1..2 /\ eff \in 0..att
    /\ ok => (att = 2 /\ eff = 2)
    /\ termCalls' = termCalls \cup {"EnterAlternateScreen"}
                       \cup (IF att = 2 THEN {"Hide"} ELSE {})
    /\ alt' = (alt \/ eff >= 1)
    /\ hidden' = (hidden \/ eff >= 2)
    /\ IF ok
       THEN /\ pc' = "ensure_dir"
            /\ UNCHANGED << status, ioFailed >>
       ELSE /\ ioFailed' = TRUE
            /\ status' = "err"
            /\ pc' = "exit"
    /\ UNCHANGED << raw, result, leftBy >>
    /\ UNCHANGED << fsVars, localVars, saveVars, histVars >>
    /\ UNCHANGED log

\* execute!(stdout, Show, LeaveAlternateScreen)?, the statement after
\* `let result = run_app(&mut stdout);`.
CleanupScreen(ok, att, eff) ==
    /\ pc = "cleanup_screen"
    /\ att \in 1..2 /\ eff \in 0..att
    /\ ok => (att = 2 /\ eff = 2)
    /\ termCalls' = termCalls \cup {"Show"}
                       \cup (IF att = 2 THEN {"LeaveAlternateScreen"} ELSE {})
    /\ hidden' = (hidden /\ eff < 1)
    /\ alt' = (alt /\ eff < 2)
    /\ IF ok
       THEN /\ pc' = "cleanup_raw"
            /\ UNCHANGED << status, ioFailed >>
       ELSE /\ ioFailed' = TRUE
            /\ status' = "err"
            /\ pc' = "exit"
    /\ DropLocals
    /\ UNCHANGED << raw, result, leftBy >>
    /\ UNCHANGED << fsVars, saveVars, histVars >>
    /\ UNCHANGED log

\* terminal::disable_raw_mode()?; result
CleanupRaw(ok) ==
    /\ pc = "cleanup_raw"
    /\ termCalls' = termCalls \cup {"disable_raw_mode"}
    /\ IF ok
       THEN /\ raw' = FALSE
            /\ status' = result
            /\ UNCHANGED ioFailed
       ELSE /\ raw' = raw
            /\ ioFailed' = TRUE
            /\ status' = "err"
    /\ pc' = "exit"
    /\ UNCHANGED << alt, hidden, result, leftBy >>
    /\ UNCHANGED << fsVars, localVars, saveVars, histVars >>
    /\ UNCHANGED log

\* The process has ended and the program is run again, on the directory and
\* the selection file the ended process has left.
Restart ==
    /\ pc = "exit"
    /\ pc' = "enable_raw"
    /\ raw' = FALSE /\ alt' = FALSE /\ hidden' = FALSE
    /\ termCalls' = {}
    /\ DropLocals
    /\ result' = "none"
    /\ leftBy' = "none"
    /\ status' = "running"
    /\ saved' = FALSE
    /\ savedNames' = {}
    /\ ioFailed' = FALSE
    /\ log' = <<>>
    /\ file0' = file
    /\ prevSaved' = IF saved /\ status = "ok"
                    THEN [saved |-> TRUE, names |-> savedNames]
                    ELSE NoSave
    /\ UNCHANGED fsVars

\* ----------------------------------------------------------------- run_app

\* A `?` on an Err in run_app: run_app returns the error to main.
Propagate ==
    /\ ioFailed' = TRUE
    /\ result' = "err"
    /\ leftBy' = "error"
    /\ pc' = "cleanup_screen"

\* The statement went through and run_app goes on to the statement at next.
GoOn(next) ==
    /\ pc' = next
    /\ UNCHANGED << result, leftBy, ioFailed >>

\* if !lists_dir.exists() { fs::create_dir(lists_dir)?; }
EnsureDir(ok) ==
    /\ pc = "ensure_dir"
    /\ IF dirExists
       THEN GoOn("read_config") /\ UNCHANGED dirExists
       ELSE IF ok
       THEN GoOn("read_config") /\ dirExists' = TRUE
       ELSE Propagate /\ UNCHANGED dirExists
    /\ UNCHANGED << dir, file, status >>
    /\ UNCHANGED << termVars, localVars, saveVars, histVars >>
    /\ UNCHANGED log

\* if config_path.exists() { File::open(..)?.read_to_string(..)?;
\*                           selected_files = content.lines()...collect(); }
ReadConfig(ok) ==
    /\ pc = "read_config"
    /\ IF ~file.exists
       THEN GoOn("read_dir") /\ UNCHANGED << selected_files, log >>
       ELSE /\ log' = Append(log, "read")
            /\ IF ok
               THEN GoOn("read_dir") /\ selected_files' = Lines(file.content)
               ELSE Propagate /\ UNCHANGED selected_files
    /\ UNCHANGED << entries, current_index, ev, redraw, screen, lastToggle,
                    status >>
    /\ UNCHANGED << termVars, fsVars, saveVars, histVars >>

\* The orders in which read_dir may yield the names of a set.
Listings(S) ==
    {l \in [1..Cardinality(S) -> S] :
        \A i, j \in 1..Cardinality(S) : l[i] = l[j] => i = j}

\* fs::read_dir(lists_dir)? ... .collect(); entries.sort_by(..);
\* entries.push(..); entries.push(..); let mut current_index = 0;
\* read_dir yields the names in an order of its own, and each item is an
\* Ok(entry) or an Err: bad holds the names whose item is an Err.
ReadDir(ok) ==
    /\ pc = "read_dir"
    /\ \E order \in Listings(DirNames), bad \in SUBSET DirNames :
       IF ok
       THEN /\ entries' = BuildEntries(
                   [i \in 1..Len(order) |->
                       [ok |-> order[i] \notin bad, name |-> order[i]]],
                   selected_files)
            /\ current_index' = 0
            /\ ioFailed' = (ioFailed \/ bad # {})
            /\ pc' = "first_draw"
            /\ UNCHANGED << result, leftBy >>
       ELSE /\ Propagate
            /\ UNCHANGED << entries, current_index >>
    /\ UNCHANGED << selected_files, ev, redraw, screen, lastToggle, status >>
    /\ UNCHANGED << termVars, fsVars, saveVars, histVars >>
    /\ UNCHANGED log

\* draw_screen(stdout, &entries, current_index, true)?
FirstDraw(ok) ==
    /\ pc = "first_draw"
    /\ IF ok
       THEN GoOn("poll") /\ screen' = DrawScreen(entries, current_index, TRUE)
       ELSE Propagate /\ screen' = FailedFrame
    /\ UNCHANGED << selected_files, entries, current_index, ev, redraw,
                    lastToggle, status >>
    /\ UNCHANGED << termVars, fsVars, saveVars, histVars >>
    /\ UNCHANGED log

\* -------------------------------------------------------------- event loop

\* The match without its Ctrl+C arm.
ArmNoCtrlC(key) ==
    IF key.code = "Up" /\ key.kind = "Press" THEN "up"
    ELSE IF key.code = "Down" /\ key.kind = "Press" THEN "down"
    ELSE IF key.code \in {"Space", "Enter"} /\ key.kind = "Press" THEN "select"
    ELSE "other"

\* The match without `kind: event::KeyEventKind::Press` in its patterns.
ArmAnyKind(key) ==
    IF key.code = "Up" THEN "up"
    ELSE IF key.code = "Down" THEN "down"
    ELSE IF key.code \in {"Space", "Enter"} THEN "select"
    ELSE IF key.code = "c" /\ key.modifiers = "CONTROL" THEN "ctrl_c"
    ELSE "other"

\* The arm of `match key` a key event takes, the arms tried in source order.
Arm(key) ==
    IF key.code = "Up" /\ key.kind = "Press" THEN "up"
    ELSE IF key.code = "Down" /\ key.kind = "Press" THEN "down"
    ELSE IF key.code \in {"Space", "Enter"} /\ key.kind = "Press" THEN "select"
    ELSE IF key.code = "c" /\ key.modifiers = "CONTROL" /\ key.kind = "Press"
    THEN "ctrl_c"
    ELSE "other"

\* The turn of a matched arm without the draw_screen call at its end.
RedrawSkipped(ok) ==
    /\ redraw' = FALSE
    /\ GoOn("poll")
    /\ UNCHANGED screen

\* if redraw { draw_screen(stdout, &entries, current_index, false)?; } with
\* redraw still true: the frame of the state the arm has left.
Redraw(ok) ==
    /\ redraw' = TRUE
    /\ IF ok
       THEN GoOn("poll") /\ screen' = DrawScreen(entries', current_index', FALSE)
       ELSE Propagate /\ screen' = FailedFrame

\* A `break` that leaves the match only, not the loop 'main.
BreakOkLoops(by) ==
    /\ redraw' = FALSE
    /\ result' = "ok"
    /\ leftBy' = by
    /\ pc' = "poll"
    /\ UNCHANGED ioFailed

\* break 'main Ok(())
BreakOk(by) ==
    /\ redraw' = FALSE
    /\ result' = "ok"
    /\ leftBy' = by
    /\ pc' = "cleanup_screen"
    /\ UNCHANGED ioFailed

\* A turn of the loop that reaches no arm of `match key` (seen is why).
IdleTurn(seen, failed) ==
    /\ ev' = seen
    /\ redraw' = FALSE
    /\ ioFailed' = (ioFailed \/ failed)
    /\ UNCHANGED << pc, selected_files, entries, current_index, screen,
                    lastToggle, result, leftBy, status >>
    /\ UNCHANGED << termVars, fsVars, saveVars, histVars >>
    /\ UNCHANGED log

\* event::poll(..) is Ok(false): no event within 16 ms, the loop turns.
PollTimeout ==
    /\ pc = "poll"
    /\ IdleTurn(OtherEv("timeout"), FALSE)

\* event::poll(..) is an Err: `if let Ok(true)` does not match, the loop turns.
PollError ==
    /\ pc = "poll"
    /\ IdleTurn(OtherEv("poll_err"), TRUE)

\* event::read() is an Err: `if let Ok(Event::Key(key))` does not match.
ReadError ==
    /\ pc = "poll"
    /\ IdleTurn(OtherEv("read_err"), TRUE)

\* event::read() is an event that is no key event (resize, mouse, focus).
OtherEvent ==
    /\ pc = "poll"
    /\ IdleTurn(OtherEv("other_event"), FALSE)

\* The Up arm without its bound.
MoveUpUnchecked(index) == index - 1

\* if current_index > 0 { current_index -= 1; }
MoveUp(index) == IF index > 0 THEN index - 1 ELSE index

\* The Down arm without its bound.
MoveDownUnclamped(index, len) == index + 1

\* if current_index < entries.len() - 1 { current_index += 1; }
MoveDown(index, len) == IF index < len - 1 THEN index + 1 ELSE index

\* KeyCode::Up, Press.
KeyUp(key, drawOk) ==
    /\ pc = "poll"
    /\ Arm(key) = "up"
    /\ ev' = key
    /\ current_index' = MoveUp(current_index)
    /\ entries' = entries
    /\ Redraw(drawOk)
    /\ lastToggle' = NoToggle
    /\ UNCHANGED << selected_files, status >>
    /\ UNCHANGED << termVars, fsVars, saveVars, histVars >>
    /\ UNCHANGED log

\* KeyCode::Down, Press.
KeyDown(key, drawOk) ==
    /\ pc = "poll"
    /\ Arm(key) = "down"
    /\ ev' = key
    /\ current_index' = MoveDown(current_index, Len(entries))
    /\ entries' = entries
    /\ Redraw(drawOk)
    /\ lastToggle' = NoToggle
    /\ UNCHANGED << selected_files, status >>
    /\ UNCHANGED << termVars, fsVars, saveVars, histVars >>
    /\ UNCHANGED log

\* The toggle as `entries[current_index].selected = true`.
ToggleSelects(es, index) ==
    [es EXCEPT ![index + 1].selected = TRUE]

\* entries[current_index].selected = !entries[current_index].selected;
Toggle(es, index) ==
    [es EXCEPT ![index + 1].selected = ~es[index + 1].selected]

\* The kind of entry at an index: the last but one is the save entry, the
\* last is the cancel entry (the two entries.push calls).
OnEntry(index, len) ==
    IF index = len - 2 THEN "save"
    ELSE IF index = len - 1 THEN "cancel"
    ELSE "real"

\* The points at which the "SAVE LIST" arm can fail, in source order, each
\* with the number of entries the save loop has visited by then: a writeln!
\* can fail on any selected entry.
SaveFailures(es) ==
    {[at |-> a, visited |-> 0] :
        a \in {"none", "create", "execute", "println", "flush"}}
    \cup {[at |-> "write", visited |-> v] :
             v \in {i \in 0..(Len(es) - 1) : es[i + 1].selected}}

\* The statements of the "SAVE LIST" arm, in source order: File::create,
\* the loop of writeln!, execute!, println!, stdout.flush, thread::sleep,
\* break.
SaveSequence ==
    << "create", "write", "execute", "println", "flush", "sleep", "break" >>

\* The "SAVE LIST" arm with thread::sleep before the loop of writeln!.
SaveStepsSleepFirst(fail) ==
    LET seq == << "create", "sleep", "write", "execute", "println", "flush",
                  "break" >>
    IN  IF fail = "none" THEN seq
        ELSE SubSeq(seq, 1,
                    (CHOOSE k \in 1..Len(SaveSequence) :
                         SaveSequence[k] = fail) - 1)

\* The statements of the arm that have completed when the arm fails at the
\* statement fail (each `?` returns at the first Err, and println! panics),
\* or all of them when none fails.
SaveSteps(fail) ==
    IF fail = "none" THEN SaveSequence
    ELSE SubSeq(SaveSequence, 1,
                (CHOOSE k \in 1..Len(SaveSequence) :
                     SaveSequence[k] = fail) - 1)

\* The "SAVE LIST" arm, on the key event key. File::create(&config_path)?
\* truncates the file; the loop writes one line per selected entry, each
\* writeln!(..)? a write of its own, so a failure on the entry after the
\* first `visited` leaves the lines written before it; then execute!(..)?,
\* println!(..) (which panics when stdout cannot be written: the panic
\* unwinds run_app and main, and none of main's cleanup runs),
\* stdout.flush()?, thread::sleep(5 s), break 'main Ok(()).
SaveArm(key, fail, visited) ==
    /\ file' = IF fail = "create" THEN file
               ELSE IF fail = "write"
               THEN FileOf(WriteSelected(entries, visited))
               ELSE FileOf(WriteSelected(entries, Len(entries)))
    /\ saved' = (fail \notin {"create", "write"})
    /\ savedNames' = IF fail \notin {"create", "write"}
                     THEN SelectedNames(entries) ELSE {}
    /\ log' = log \o SaveSteps(fail)
    /\ IF fail = "none"
       THEN /\ ev' = key
            /\ screen' = MessageFrame
            /\ BreakOk(OnEntry(current_index, Len(entries)))
            /\ UNCHANGED << selected_files, entries, current_index,
                            lastToggle, status >>
       ELSE /\ leftBy' = OnEntry(current_index, Len(entries))
            /\ ioFailed' = TRUE
            /\ IF fail = "println"
               THEN /\ DropLocals
                    /\ status' = "panic"
                    /\ pc' = "exit"
                    /\ UNCHANGED result
               ELSE /\ ev' = key
                    /\ redraw' = FALSE
                    /\ screen' = IF fail = "flush" THEN MessageFrame
                                 ELSE screen
                    /\ result' = "err"
                    /\ pc' = "cleanup_screen"
                    /\ UNCHANGED << selected_files, entries, current_index,
                                    lastToggle, status >>

\* The special-entry test off by one: entries.len() - 1.
OnSpecialLastOnly(index, len) == index >= len - 1

\* if current_index >= entries.len() - 2: the cursor is on a special entry.
OnSpecial(index, len) == index >= len - 2

\* The match with "CANCEL" falling into the "SAVE LIST" arm.
SpecialArmCancelSaves(name) ==
    IF name = SaveList \/ name = Cancel THEN "save" ELSE "none"

\* match entries[current_index].name.as_str() { "SAVE LIST" => .., "CANCEL"
\* => .., _ => {} }: the arm a special entry's name takes.
SpecialArm(name) ==
    IF name = SaveList THEN "save"
    ELSE IF name = Cancel THEN "cancel"
    ELSE "none"

\* KeyCode::Char(' ') | KeyCode::Enter, Press.
KeySelect(key) ==
    /\ pc = "poll"
    /\ Arm(key) = "select"
    /\ IF OnSpecial(current_index, Len(entries))
       THEN IF SpecialArm(entries[current_index + 1].name) = "save"
            THEN \E f \in SaveFailures(entries) : SaveArm(key, f.at, f.visited)
            ELSE IF SpecialArm(entries[current_index + 1].name) = "cancel"
            THEN /\ ev' = key
                 /\ BreakOk(OnEntry(current_index, Len(entries)))
                 /\ UNCHANGED << selected_files, entries, current_index,
                                 screen, lastToggle, file, status, saveVars,
                                 log >>
            ELSE /\ ev' = key
                 /\ UNCHANGED << entries, current_index >>
                 /\ \E drawOk \in BOOLEAN : Redraw(drawOk)
                 /\ UNCHANGED << selected_files, lastToggle, file, status,
                                 saveVars, log >>
       ELSE /\ ev' = key
            /\ entries' = Toggle(entries, current_index)
            /\ current_index' = current_index
            /\ lastToggle' =
                  [ index   |-> current_index,
                    presses |-> IF lastToggle.index = current_index
                                THEN 2 ELSE 1,
                    was     |-> entries[current_index + 1].selected ]
            /\ \E drawOk \in BOOLEAN : Redraw(drawOk)
            /\ UNCHANGED << selected_files, file, status, saveVars, log >>
    /\ UNCHANGED << dirExists, dir >>
    /\ UNCHANGED << termVars, histVars >>

\* KeyCode::Char('c') with KeyModifiers::CONTROL, Press: break 'main Ok(())
KeyCtrlC(key) ==
    /\ pc = "poll"
    /\ Arm(key) = "ctrl_c"
    /\ ev' = key
    /\ BreakOk("ctrl_c")
    /\ UNCHANGED << selected_files, entries, current_index, screen,
                    lastToggle, status >>
    /\ UNCHANGED << termVars, fsVars, saveVars, histVars >>
    /\ UNCHANGED log

\* _ => { redraw = false; }
KeyOther(key) ==
    /\ pc = "poll"
    /\ Arm(key) = "other"
    /\ IdleTurn(key, FALSE)

Next ==
    \/ \E ok \in BOOLEAN : EnableRaw(ok)
    \/ \E ok \in BOOLEAN, att \in 1..2, eff \in 0..2 : EnterScreen(ok, att, eff)
    \/ \E ok \in BOOLEAN : EnsureDir(ok)
    \/ \E ok \in BOOLEAN : ReadConfig(ok)
    \/ \E ok \in BOOLEAN : ReadDir(ok)
    \/ \E ok \in BOOLEAN : FirstDraw(ok)
    \/ PollTimeout
    \/ PollError
    \/ ReadError
    \/ OtherEvent
    \/ \E key \in KeyEvents, drawOk \in BOOLEAN : KeyUp(key, drawOk)
    \/ \E key \in KeyEvents, drawOk \in BOOLEAN : KeyDown(key, drawOk)
    \/ \E key \in KeyEvents : KeySelect(key)
    \/ \E key \in KeyEvents : KeyCtrlC(key)
    \/ \E key \in KeyEvents : KeyOther(key)
    \/ \E ok \in BOOLEAN, att \in 1..2, eff \in 0..2 : CleanupScreen(ok, att, eff)
    \/ \E ok \in BOOLEAN : CleanupRaw(ok)
    \/ Restart

Spec == Init /\ [][Next]_vars

\* ------------------------------------------------------------------ claims

CleanupCalls == {"Show", "LeaveAlternateScreen", "disable_raw_mode"}

\* C1: whenever run_app has returned (with Ok or with an error), the process
\* ends only after main has made the three cleanup calls: show cursor, leave
\* the alternate screen, disable raw mode.
C1_CleanupAfterRunApp ==
    (pc = "exit" /\ result # "none") => CleanupCalls \subseteq termCalls

\* C2: when the process ends, every terminal mode that is still entered has
\* had its reversal attempted, whichever terminal-control step failed.
C2_RestorationAttempted ==
    pc = "exit" =>
        /\ raw => "disable_raw_mode" \in termCalls
        /\ alt => "LeaveAlternateScreen" \in termCalls
        /\ hidden => "Show" \in termCalls

\* The catalog has been built and the loop has it.
InLoop == pc \in {"first_draw", "poll"}

\* run_app has just returned: main has its result, and the model still shows
\* the locals run_app returned with.
Returned == pc = "cleanup_screen" /\ entries # <<>>

\* C3: while the event loop runs, 0 <= current_index < len(entries), for
\* every catalog and every sequence of key events.
C3_CursorInRange ==
    InLoop => (current_index >= 0 /\ current_index < Len(entries))

\* C3 witness: on the catalog of an empty directory (length 2) the cursor is
\* on the last entry after a Down press, where a further Down is clamped.
C3_Witness ==
    /\ pc = "poll"
    /\ Len(entries) = 2
    /\ current_index = Len(entries) - 1
    /\ ev = KeyEv("Down", "NONE", "Press")

\* A line of the selection file names a special entry.
HoldsSpecialLine(content) ==
    \E i \in 1..Len(Lines(content)) : Lines(content)[i] \in {SaveList, Cancel}

\* C4: once the catalog is built, its last two entries are the save entry and
\* then the cancel entry, both unselected, in every state; and a selection
\* file the save has written holds no line naming a special entry.
C4_SpecialsLastAndUnselected ==
    /\ (InLoop \/ Returned) =>
          /\ Len(entries) >= 2
          /\ entries[Len(entries) - 1] = [name |-> SaveList, selected |-> FALSE]
          /\ entries[Len(entries)] = [name |-> Cancel, selected |-> FALSE]
    /\ (saved \/ file # file0) => ~HoldsSpecialLine(file.content)

\* C4 witness: a save has replaced a selection file that held the line
\* "SAVE LIST" by a record of at least one name.
C4_Witness ==
    /\ Returned /\ saved
    /\ HoldsSpecialLine(file0.content)
    /\ file.content # <<>>
    /\ current_index = Len(entries) - 2

\* The record of a catalog, built from its head: each selected entry's name
\* followed by a line feed, in catalog order.
RecordOf(es) ==
    LET RECURSIVE rec(_)
        rec(i) == IF i > Len(es) THEN <<>>
                  ELSE (IF es[i].selected THEN es[i].name \o <<LF>> ELSE <<>>)
                       \o rec(i + 1)
    IN  rec(1)

\* C5: after Enter or Space on the save entry has written the file, the file
\* exists and holds exactly the selected entries' names, each followed by a
\* line feed, in catalog order, and nothing else (nothing at all when no
\* entry is selected).
C5_SaveWritesSelection ==
    /\ (Returned /\ saved) =>
          (file.exists /\ file.content = RecordOf(entries))
    /\ saved => leftBy = "save"

\* C5 witness: a save of two selected entries over a file that held
\* something else.
C5_Witness ==
    /\ Returned /\ saved
    /\ result = "ok"
    /\ Cardinality(SelectedNames(entries)) = 2
    /\ file0.exists /\ file0.content # file.content
    /\ ev.code \in {"Space", "Enter"}

\* C6: a process that starts after one that saved with exactly the set S of
\* names selected and ended with success, on the same directory and the file just written, and whose
\* own scan met no failure, starts with exactly S selected.
C6_RoundTrip ==
    (pc = "first_draw" /\ prevSaved.saved /\ ~ioFailed) =>
        SelectedNames(entries) = prevSaved.names

\* C7: in every state of a process that was not left by Enter or Space on
\* the save entry, and so at the end of every run that ends by cancel, by
\* Ctrl+C or by an error before a save, the selection file is what it was
\* when the process started.
C7_FileUntouchedWithoutSave == leftBy # "save" => file = file0

\* C7 witness: a run that started with a selection file has toggled entries
\* so that the selection differs from the file's, and was left by Enter on
\* the cancel entry.
C7_Witness ==
    /\ Returned /\ result = "ok" /\ leftBy = "cancel"
    /\ ev = KeyEv("Enter", "NONE", "Press")
    /\ current_index = Len(entries) - 1
    /\ file0.exists
    /\ SelectedNames(entries) # {}
    /\ file.content # RecordOf(entries)

\* The selection rule, character by character.
MatchesRule(n) ==
    /\ Len(n) >= 5
    /\ n[1] = "l" /\ n[2] = "i" /\ n[3] = "s" /\ n[4] = "t" /\ n[5] = "-"
    /\ n[Len(n) - 3] = "." /\ n[Len(n) - 2] = "t"
    /\ n[Len(n) - 1] = "x" /\ n[Len(n)] = "t"
    /\ n # ListUltimate

\* C8: the catalog built from a directory holding N names that match the
\* selection rule has N + 2 entries: those N names in increasing order, then
\* the save entry, then the cancel entry.
C8_CatalogOfDirectory ==
    pc = "first_draw" =>
        LET matching == {n \in DirNames : MatchesRule(n)}
            N        == Cardinality(matching)
        IN  /\ Len(entries) = N + 2
            /\ {entries[i].name : i \in 1..N} = matching
            /\ \A i \in 1..(N - 1) : StrLess(entries[i].name, entries[i + 1].name)
            /\ entries[N + 1].name = SaveList
            /\ entries[N + 2].name = Cancel

\* name is a line of the text c: it starts at the start of c or after a line
\* feed, holds no line feed, and is followed by the end of c, by a line
\* feed, or by a carriage return and a line feed.
IsLineOf(name, c) ==
    /\ \A k \in 1..Len(name) : name[k] # LF
    /\ name # <<>> /\ name[Len(name)] # CR
    /\ \E s \in 1..Len(c) :
          LET e == s + Len(name) - 1
          IN  /\ s = 1 \/ c[s - 1] = LF
              /\ e <= Len(c)
              /\ SubSeq(c, s, e) = name
              /\ \/ e = Len(c)
                 \/ c[e + 1] = LF
                 \/ (e + 2 <= Len(c) /\ c[e + 1] = CR /\ c[e + 2] = LF)

C10_FailuresEndTheRun ==
    /\ ioFailed => pc \in {"cleanup_screen", "cleanup_raw", "exit"}
    /\ (pc = "exit" /\ ioFailed) => status # "ok"

\* C11: once run_app has returned from an attempt to save, failed or not,
\* the selection file is either what it was when the process started or the
\* complete record of the selection; it is never an emptied file, a strict
\* prefix of the record, or a mix.
C11_NoPartialUpdate ==
    (Returned /\ leftBy = "save") =>
        \/ file = file0
        \/ (file.exists /\ file.content = RecordOf(entries))

\* The process has completed the step x of the save arm.
Did(x) == Contains(log, x)

\* The process has completed x and, later, y.
Before(x, y) ==
    \E i, j \in 1..Len(log) : i < j /\ log[i] = x /\ log[j] = y

\* C12: a pause happens only in a save, after the write of the file has
\* completed and after the success message has been printed and flushed,
\* and is followed by the end of the loop with success; a save that ends
\* with success has paused; a run in which the write failed has neither
\* printed the message nor paused; and no run pauses outside a save.
C12_SaveOrder ==
    /\ Did("sleep") =>
          /\ leftBy = "save" /\ saved
          /\ Before("create", "write") /\ Before("write", "println")
          /\ Before("println", "flush") /\ Before("flush", "sleep")
          /\ Before("sleep", "break")
          /\ result = "ok"
    /\ (result = "ok" /\ leftBy = "save") => Did("sleep")
    /\ (Returned /\ Did("sleep")) =>
          /\ file.exists /\ file.content = RecordOf(entries)
          /\ screen = MessageFrame
    /\ ~saved => (~Did("println") /\ ~Did("sleep") /\ screen # MessageFrame)
    /\ leftBy # "save" => ~Did("sleep")

\* C12 witness: a save of a selection that is not empty has written the
\* file, shown the message, paused and ended the loop with success.
C12_Witness ==
    /\ Returned /\ result = "ok" /\ leftBy = "save"
    /\ Did("sleep")
    /\ SelectedNames(entries) # {}
    /\ screen = MessageFrame

\* A step of the loop that reads the key event key: the loop is at its poll
\* and the event it has read is key.
Reads(key) == pc = "poll" /\ ev' = key

CtrlC == KeyEv("c", "CONTROL", "Press")

\* What a Ctrl+C press does: the loop ends at once with Ok, from any cursor
\* index and any selection, with no write and no draw.
CtrlCLeaves ==
    Reads(CtrlC) =>
        /\ pc' = "cleanup_screen" /\ result' = "ok" /\ leftBy' = "ctrl_c"
        /\ file' = file /\ log' = log
        /\ redraw' = FALSE /\ screen' = screen
        /\ entries' = entries /\ current_index' = current_index

\* The loop has ended by a completed save, by cancel or by Ctrl+C.
LeftWithOk == leftBy \in {"save", "cancel", "ctrl_c"} /\ result = "ok"

\* main's two cleanup statements have both succeeded.
CleanedUp == "disable_raw_mode" \in termCalls /\ ~raw

\* C13 as stated: whenever the loop has ended by save, by cancel or by
\* Ctrl+C, the process ends with success; and a Ctrl+C press ends the loop
\* at once, with no write and no further draw.
C13_SuccessOnLeaveAsStated ==
    [][ /\ (pc' = "exit" /\ LeftWithOk') => status' = "ok"
        /\ CtrlCLeaves ]_vars

\* C13: whenever the loop has ended by save, by cancel or by Ctrl+C and
\* main's cleanup statements have then succeeded, the process ends with
\* success, and it ends with an error when one of them has failed; and a
\* Ctrl+C press ends the loop at once, with no write and no further draw.
C13_SuccessOnLeave ==
    [][ /\ (pc' = "exit" /\ LeftWithOk') =>
              /\ CleanedUp' => status' = "ok"
              /\ ~CleanedUp' => status' = "err"
        /\ CtrlCLeaves ]_vars

\* C13 witness: a process that started beside a selection file and was left
\* by Ctrl+C has ended with success, the file as it was.
C13_Witness ==
    /\ pc = "exit" /\ status = "ok"
    /\ leftBy = "ctrl_c"
    /\ file0.exists /\ file = file0

SelectPresses == {KeyEv("Space", "NONE", "Press"), KeyEv("Enter", "NONE", "Press")}

\* Only the selected flag of the entry at index differs between es and fs.
FlipsOnly(es, fs, index) ==
    /\ Len(fs) = Len(es)
    /\ \A i \in 1..Len(es) :
          /\ fs[i].name = es[i].name
          /\ (fs[i].selected # es[i].selected) <=> (i = index + 1)

\* C14: a press of Space or Enter with the cursor on a real entry flips that
\* entry's selected flag and leaves every other flag, every name and the
\* cursor as they were; and when the press before it (no Up or Down press
\* between) was such a press at the same index, the flag is back at what it
\* was before the two.
C14_ToggleFlipsOne ==
    [][ \A key \in SelectPresses :
          (Reads(key) /\ current_index < Len(entries) - 2) =>
              /\ FlipsOnly(entries, entries', current_index)
              /\ current_index' = current_index
              /\ lastToggle.index = current_index =>
                     entries'[current_index + 1].selected = lastToggle.was
      ]_vars

\* C14 witness: two presses in a row on the same real entry, one of two real
\* entries, the other of which is selected.
C14_Witness ==
    /\ pc = "poll"
    /\ ev \in SelectPresses
    /\ lastToggle.presses = 2
    /\ lastToggle.index = current_index
    /\ Len(entries) = 4
    /\ \E i \in 1..2 : i # current_index + 1 /\ entries[i].selected

Min(a, b) == IF a < b THEN a ELSE b
Max(a, b) == IF a > b THEN a ELSE b

\* C15: an Up press sets the cursor to max(0, cursor - 1) and a Down press
\* to min(len - 1, cursor + 1), and neither changes the catalog.
C15_UpDownClamped ==
    [][ /\ Reads(KeyEv("Up", "NONE", "Press")) =>
              /\ current_index' = Max(0, current_index - 1)
              /\ entries' = entries
        /\ Reads(KeyEv("Down", "NONE", "Press")) =>
              /\ current_index' = Min(Len(entries) - 1, current_index + 1)
              /\ entries' = entries
      ]_vars

\* C15 witness: after an Up press the cursor is on the first of two real
\* entries, one of them selected.
C15_Witness ==
    /\ pc = "poll"
    /\ ev = KeyEv("Up", "NONE", "Press")
    /\ current_index = 0
    /\ Len(entries) = 4
    /\ SelectedNames(entries) # {}

\* C16: a key event whose kind is not Press, whatever its code and
\* modifiers, leaves the cursor, the catalog and the selection file as they
\* were, does not end the loop and draws nothing.
C16_NonPressIgnored ==
    [][ \A key \in KeyEvents :
          (Reads(key) /\ key.kind # "Press") =>
              /\ pc' = "poll" /\ result' = result /\ leftBy' = leftBy
              /\ current_index' = current_index /\ entries' = entries
              /\ file' = file /\ log' = log
              /\ redraw' = FALSE /\ screen' = screen
      ]_vars

\* C16 witness: the loop has read the release of Ctrl+C with the cursor on
\* the save entry and an entry selected, and is at its poll again.
C16_Witness ==
    /\ pc = "poll"
    /\ ev = KeyEv("c", "CONTROL", "Release")
    /\ current_index = Len(entries) - 2
    /\ SelectedNames(entries) # {}

\* The loop goes on after the step: it has not been left by a break.
LoopGoesOn == leftBy' \notin {"save", "cancel", "ctrl_c"}

\* C17: a press of a key that is none of Up, Down, Space, Enter and Ctrl+C
\* changes neither cursor, catalog nor selection file and draws nothing; a
\* press of Up, Down, Space or Enter that does not end the loop is followed,
\* before the next poll, by one draw_screen call, of the state the press has
\* left and without a clear.
C17_RedrawPerPress ==
    [][ \A key \in KeyEvents :
          (Reads(key) /\ key.kind = "Press") =>
              IF key.code \in {"Up", "Down", "Space", "Enter"}
              THEN LoopGoesOn =>
                     /\ redraw' = TRUE
                     /\ \/ pc' = "poll" /\
                             screen' = DrawScreen(entries', current_index', FALSE)
                        \/ pc' = "cleanup_screen" /\ result' = "err" /\
                             screen' = FailedFrame
              ELSE key # CtrlC =>
                     /\ pc' = "poll"
                     /\ current_index' = current_index /\ entries' = entries
                     /\ file' = file /\ log' = log
                     /\ redraw' = FALSE /\ screen' = screen
      ]_vars

\* C17 witness: the loop has read a press of the key c alone after an
\* earlier press had moved the cursor and been drawn.
C17_Witness ==
    /\ pc = "poll"
    /\ ev = KeyEv("c", "NONE", "Press")
    /\ ~redraw
    /\ screen.kind = "partial"
    /\ current_index > 0

\* C18: the frame the first draw_screen call of a run puts out is a full
\* repaint, every frame a turn of the loop puts out is drawn without a clear,
\* and no step puts out a full repaint once the run has a frame.
C18_FullRepaintFirstOnly ==
    [][ /\ (pc = "first_draw" /\ pc' = "poll") =>
              (screen = NoFrame /\ screen'.kind = "full")
        /\ (pc = "poll" /\ redraw' /\ pc' = "poll") => screen'.kind = "partial"
        /\ (screen # NoFrame /\ screen' # screen) => screen'.kind # "full"
      ]_vars

\* C18 witness: a turn of the loop has drawn a frame without a clear over
\* the full repaint of the start.
C18_Witness ==
    /\ pc = "poll"
    /\ redraw
    /\ screen.kind = "partial"
    /\ ev = KeyEv("Down", "NONE", "Press")
    /\ current_index = 1

\* The number of times the process has done x.
Count(x) == Cardinality({i \in 1..Len(log) : log[i] = x})

\* The stretch of a run in which main's cleanup runs or the process is over.
Leaving == pc \in {"cleanup_screen", "cleanup_raw", "exit"}

\* C19: a process reads the selection file at most once, in the statement
\* that reads the configuration and before the loop has read any event; it
\* creates and writes the file at most once, and only in a step of a save;
\* and once it has, it is out of the loop: it reads no further key event and
\* its catalog and cursor stay as they are until run_app's frame is dropped.
C19_ReadOnceWriteOnce ==
    [][ /\ Count("read")' <= 1 /\ Count("create")' <= 1 /\ Count("write")' <= 1
        /\ Count("read")' > Count("read") =>
              (pc = "read_config" /\ ev = NoEvent /\ log = <<>>)
        /\ (file' # file \/ Count("create")' > Count("create")) =>
              /\ pc = "poll" /\ ev' \in SelectPresses \cup {NoEvent}
              /\ current_index = Len(entries) - 2
              /\ leftBy' = "save"
              /\ Count("create") = 0 /\ Count("create")' = 1
        /\ Did("create")' => Leaving'
        /\ Did("create") =>
              /\ ev' \in {ev, NoEvent}
              /\ entries' \in {entries, <<>>}
              /\ current_index' \in {current_index, 0}
              /\ file' = file
      ]_vars

\* C19 witness: a run that read the selection file at its start has written
\* it in a save and has left the loop.
C19_Witness ==
    /\ Returned
    /\ log # <<>> /\ log[1] = "read"
    /\ Did("write") /\ Did("break")
    /\ file # file0

\* C20: whenever the loop is at its poll, the frame on the terminal has one
\* line per entry, the cursor marker and the reversed style on exactly the
\* line at current_index, the selection marker on exactly the lines of the
\* selected entries, and each line shows its entry's name (the two special
\* entries under their labels).
C20_FrameShowsState ==
    pc = "poll" =>
        /\ screen.kind \in {"full", "partial"}
        /\ Len(screen.lines) = Len(entries)
        /\ \A i \in 1..Len(entries) :
              /\ (screen.lines[i].cursor = ">") <=> (i - 1 = current_index)
              /\ screen.lines[i].cursor \in {">", " "}
              /\ screen.lines[i].reversed <=> (i - 1 = current_index)
              /\ (screen.lines[i].mark = "*") <=> entries[i].selected
              /\ screen.lines[i].mark \in {"*", " "}
              /\ screen.lines[i].name =
                    (IF i = Len(entries) - 1 THEN LabelSave
                     ELSE IF i = Len(entries) THEN LabelCancel
                     ELSE entries[i].name)

\* C20 witness: at the poll, the cursor has been moved off the first line
\* and an entry the selection file did not name has been selected.
C20_Witness ==
    /\ pc = "poll"
    /\ current_index > 0
    /\ screen.kind = "partial"
    /\ \E i \in 1..(Len(entries) - 2) :
          entries[i].selected /\ ~Contains(selected_files, entries[i].name)

====
